---- MODULE Spec2Model ----
(***************************************************************************)
(* Model of the finite field element library (src/src/lib.rs).             *)
(*                                                                         *)
(* FieldElement<T> is generic over a Copy integer type T that converts     *)
(* from i32 (the tests use i64).  T is modelled as a two's-complement      *)
(* signed integer with range TMin..TMax.  The arithmetic operators of T    *)
(* follow Rust: `%` is the truncated remainder and panics on a zero        *)
(* divisor; `+`, `-`, `*` panic on overflow when the build has overflow    *)
(* checks (debug profile) and wrap otherwise (release profile).            *)
(*                                                                         *)
(* The library is a set of pure functions.  They are operators here, and   *)
(* the state machine is a caller shaped like the tests of the library: it  *)
(* constructs elements with new(..).unwrap() (f1, f2 of the tests), so a   *)
(* failed construction ends the run, then applies one operation to them;   *)
(* the last call and its outcome are recorded.                             *)
(***************************************************************************)
EXTENDS Integers, Sequences, FiniteSets

VARIABLES
    overflow_checks,  \* build profile: TRUE = overflow checks on (debug)
    f,                \* the elements constructed so far, at most two
    last              \* the last call: operation, scalar arguments, outcome

vars == <<overflow_checks, f, last>>

----------------------------------------------------------------------------
(* Bounds of the model *)

TMax == 31           \* largest value of T (scaled-down width)
TMin == -TMax - 1    \* smallest value of T
MaxOrder == 5        \* orders 1..MaxOrder are enumerated, plus TMax
MaxNum == 6          \* numbers -MaxNum..MaxNum are enumerated, plus extremes
MaxExp == 6          \* exponents -MaxExp..MaxExp are enumerated, plus extremes

Numbers == (-MaxNum .. MaxNum) \cup {TMin, TMax - 1, TMax}
Orders == (-1 .. MaxOrder) \cup {TMax}
Exps == (-MaxExp .. MaxExp) \cup {TMin, TMax}

----------------------------------------------------------------------------
(* Arithmetic of the integer type T *)

Val(x) == [ok |-> TRUE, v |-> x]
Abort == [ok |-> FALSE, v |-> 0]

InT(x) == TMin <= x /\ x <= TMax

\* two's-complement wrap-around into TMin..TMax
Wrap(x) == ((x - TMin) % (TMax - TMin + 1)) + TMin

\* result of an overflowing operation: panic with checks, wrap without
Overflow(x) ==
    IF InT(x) THEN Val(x)
    ELSE IF overflow_checks THEN Abort ELSE Val(Wrap(x))

TAdd(x, y) == Overflow(x + y)
TSub(x, y) == Overflow(x - y)
TMul(x, y) == Overflow(x * y)

Abs(x) == IF x < 0 THEN -x ELSE x

\* Rust `%`: sign of the dividend; panics on zero divisor and on MIN % -1
TRem(x, y) ==
    IF y = 0 THEN Abort
    ELSE IF x = TMin /\ y = -1 THEN Abort
    ELSE IF x >= 0 THEN Val(x % Abs(y))
    ELSE Val(-((-x) % Abs(y)))

----------------------------------------------------------------------------
(* Outcomes of calls *)

NoFE == [number |-> 0, order |-> 0]

Ok(fe, n) == [tag |-> "Ok", fe |-> fe, err |-> "", iters |-> n]
Err(e) == [tag |-> "Err", fe |-> NoFE, err |-> e, iters |-> 0]
Panic == [tag |-> "Panic", fe |-> NoFE, err |-> "", iters |-> 0]
NoOut == [tag |-> "None", fe |-> NoFE, err |-> "", iters |-> 0]

FE(number, order) == [number |-> number, order |-> order]

----------------------------------------------------------------------------
(* FieldElement::new *)

new(number, order) ==
    IF order < 0 THEN Err("NegativeOrderError")
    ELSE IF number > order THEN Err("NumberGreaterThanOrderError")
    ELSE LET m == TRem(number, order)
         IN  IF ~m.ok THEN Panic ELSE Ok(FE(m.v, order), 0)

----------------------------------------------------------------------------
(* FieldElement::pow *)

\* the exponent after the rewrite of a negative exponent (applied once)
PowExp(self, exp) ==
    IF exp < 0
    THEN LET t == TSub(self.order, 1)
         IN  IF ~t.ok THEN Abort ELSE TAdd(t.v, exp)
    ELSE Val(exp)

\* the while loop: r is the accumulator, iters counts the executed bodies
RECURSIVE PowLoop(_, _, _, _)
PowLoop(self, r, exp, iters) ==
    IF exp > 0
    THEN LET p == TMul(r, self.number)
             m == IF p.ok THEN TRem(p.v, self.order) ELSE Abort
             d == TSub(exp, 1)
         IN  IF ~m.ok \/ ~d.ok THEN Panic
             ELSE PowLoop(self, m.v, d.v, iters + 1)
    ELSE LET m == TRem(r, self.order)
         IN  IF ~m.ok THEN Panic ELSE Ok(FE(m.v, self.order), iters)

\* pow with the accumulator starting at 0 instead of 1
pow_acc0(self, exp) ==
    LET e == PowExp(self, exp)
    IN  IF ~e.ok THEN Panic ELSE PowLoop(self, 0, e.v, 0)

pow(self, exp) ==
    LET e == PowExp(self, exp)
    IN  IF ~e.ok THEN Panic ELSE PowLoop(self, 1, e.v, 0)

----------------------------------------------------------------------------
(* The binary operators *)

add(self, rhs) ==
    IF self.order # rhs.order THEN Panic
    ELSE LET s == TAdd(self.number, rhs.number)
             m == IF s.ok THEN TRem(s.v, self.order) ELSE Abort
         IN  IF ~m.ok THEN Panic ELSE Ok(FE(m.v, self.order), 0)

sub(self, rhs) ==
    IF self.order # rhs.order THEN Panic
    ELSE LET d == TSub(self.number, rhs.number)
             s == IF d.ok THEN TAdd(d.v, self.order) ELSE Abort
             m == IF s.ok THEN TRem(s.v, self.order) ELSE Abort
         IN  IF ~m.ok THEN Panic ELSE Ok(FE(m.v, self.order), 0)

mul(self, rhs) ==
    IF self.order # rhs.order THEN Panic
    ELSE LET p == TMul(self.number, rhs.number)
             m == IF p.ok THEN TRem(p.v, self.order) ELSE Abort
         IN  IF ~m.ok THEN Panic ELSE Ok(FE(m.v, self.order), 0)

div(self, rhs) ==
    IF self.order # rhs.order THEN Panic
    ELSE LET inverse == -1
             divisor == pow(rhs, inverse)
         IN  IF divisor.tag # "Ok" THEN Panic ELSE mul(self, divisor.fe)

----------------------------------------------------------------------------
(* The caller *)

Call(op, x, y, out) == [op |-> op, x |-> x, y |-> y, out |-> out]

\* the caller is still running: nothing has failed and no operation applied
Running(n) ==
    /\ Len(f) = n
    /\ last.op = "none" \/ (last.op = "new" /\ last.out.tag = "Ok")

Init ==
    /\ overflow_checks \in BOOLEAN
    /\ f = <<>>
    /\ last = Call("none", 0, 0, NoOut)

New ==
    /\ Running(0) \/ Running(1)
    /\ \E number \in Numbers, order \in Orders :
           LET out == new(number, order)
           IN  /\ last' = Call("new", number, order, out)
               /\ f' = IF out.tag = "Ok" THEN Append(f, out.fe) ELSE f
    /\ UNCHANGED overflow_checks

Add ==
    /\ Running(2)
    /\ last' = Call("add", 0, 0, add(f[1], f[2]))
    /\ UNCHANGED <<overflow_checks, f>>

Sub ==
    /\ Running(2)
    /\ last' = Call("sub", 0, 0, sub(f[1], f[2]))
    /\ UNCHANGED <<overflow_checks, f>>

Mul ==
    /\ Running(2)
    /\ last' = Call("mul", 0, 0, mul(f[1], f[2]))
    /\ UNCHANGED <<overflow_checks, f>>

Div ==
    /\ Running(2)
    /\ last' = Call("div", 0, 0, div(f[1], f[2]))
    /\ UNCHANGED <<overflow_checks, f>>

Pow ==
    /\ Running(1)
    /\ \E exp \in Exps :
           last' = Call("pow", exp, 0, pow(f[1], exp))
    /\ UNCHANGED <<overflow_checks, f>>

Next == New \/ Add \/ Sub \/ Mul \/ Div \/ Pow

Spec == Init /\ [][Next]_vars

----------------------------------------------------------------------------
(* Mathematical reference operators used to state the properties *)

\* canonical residue of x modulo m, m > 0
Residue(x, m) == x % m

Prime(p) == p > 1 /\ \A d \in 2 .. (p - 1) : p % d # 0

\* square-and-multiply exponentiation on the residues modulo m, e >= 0
RECURSIVE BinPow(_, _, _)
BinPow(b, e, m) ==
    IF e = 0 THEN Residue(1, m)
    ELSE IF e % 2 = 0 THEN BinPow(Residue(b * b, m), e \div 2, m)
    ELSE Residue(b * BinPow(b, e - 1, m), m)

Max(x, y) == IF x >= y THEN x ELSE y

IsNew == last.op = "new"
IsPow == last.op = "pow"
IsBinary == last.op \in {"add", "sub", "mul", "div"}
Returned == last.out.tag = "Ok"
SameOrder == Len(f) = 2 /\ f[1].order = f[2].order

----------------------------------------------------------------------------
(* Properties *)

\* C1: whenever new(number, order) succeeds, the returned element satisfies
\* 0 <= number < order and order >= 0, for every pair of integers,
\* negative numbers included.
C1_InvariantI1 ==
    (IsNew /\ Returned) =>
        /\ last.out.fe.order >= 0
        /\ 0 <= last.out.fe.number
        /\ last.out.fe.number < last.out.fe.order

\* C2: outcome of new(number, order): NegativeOrderError if order < 0,
\* otherwise NumberGreaterThanOrderError if number > order, otherwise
\* (order = 0 and number = order included) success storing number mod order
\* and order.  "mod" is read here as the remainder the code computes, so
\* that the stored value of a negative number is not what is at stake.
C2_NewOutcome ==
    IsNew =>
        LET number == last.x
            order == last.y
        IN  IF order < 0
            THEN last.out = Err("NegativeOrderError")
            ELSE IF number > order
            THEN last.out = Err("NumberGreaterThanOrderError")
            ELSE /\ Returned
                 /\ last.out.fe.order = order
                 /\ order > 0 =>
                        /\ Residue(last.out.fe.number - number, order) = 0
                        /\ Abs(last.out.fe.number) < order

\* C3: for elements of equal order, a + b, a - b and a * b return an
\* element of the same order whose number is the canonical residue of the
\* sum, difference and product of the numbers.
C3_Exact(op, a, b) ==
    CASE op = "add" -> a.number + b.number
      [] op = "sub" -> a.number - b.number
      [] op = "mul" -> a.number * b.number

C3_Closure ==
    (last.op \in {"add", "sub", "mul"} /\ SameOrder) =>
        /\ Returned
        /\ last.out.fe.order = f[1].order
        /\ last.out.fe.number =
               Residue(C3_Exact(last.op, f[1], f[2]), f[1].order)

\* C4: for elements of equal order, (a + b) - b == a.
C4_AddSubInverse ==
    (last.op = "add" /\ SameOrder) =>
        /\ Returned
        /\ LET back == sub(last.out.fe, f[2])
           IN  back.tag = "Ok" /\ back.fe = f[1]

\* C5: for a prime order and elements a, b of that order with
\* b.number # 0, (a / b) * b == a.
C5_DivMulInverse ==
    (last.op = "div" /\ SameOrder /\ Prime(f[1].order)
        /\ f[2].number # 0) =>
        /\ Returned
        /\ LET back == mul(last.out.fe, f[2])
           IN  back.tag = "Ok" /\ back.fe = f[1]

\* C6: each of +, -, *, / aborts exactly when the orders differ: it panics
\* when a.order # b.order and returns an element when a.order = b.order.
C6_AbortIffMismatch ==
    IsBinary =>
        /\ ~SameOrder => last.out.tag = "Panic"
        /\ SameOrder => Returned

\* C7: a.pow(1) == a, and a.pow(0) is the element 1 mod order of a's
\* order, produced without executing the loop body.
C7_PowIdentity ==
    /\ (IsPow /\ last.x = 1) =>
           Returned /\ last.out.fe = f[1]
    /\ (IsPow /\ last.x = 0) =>
           /\ Returned
           /\ last.out.fe = FE(Residue(1, f[1].order), f[1].order)
           /\ last.out.iters = 0

\* a.pow(1) was called on an element other than 0 and 1 and returned it
C7_Witness ==
    /\ IsPow /\ last.x = 1 /\ Returned
    /\ f[1].number > 1
    /\ last.out.fe = f[1]

\* C8: for e >= 0, a.pow(e) has a's order and number (a.number ^ e) mod
\* order, the result of square-and-multiply exponentiation.  Both readings
\* of "mod" are accepted: the canonical residue, or the remainder with the
\* sign of a.number ^ e.
C8_Signed(a, e) ==
    LET m == BinPow(Abs(a.number), e, a.order)
    IN  IF a.number < 0 /\ e % 2 = 1 THEN -m ELSE m

C8_PowReference ==
    (IsPow /\ last.x >= 0) =>
        /\ Returned
        /\ last.out.fe.order = f[1].order
        /\ \/ last.out.fe.number =
                  BinPow(Residue(f[1].number, f[1].order), last.x, f[1].order)
           \/ last.out.fe.number = C8_Signed(f[1], last.x)

\* C9: for a prime order p, a.number # 0 and -(p-1) <= e < 0, a.pow(e)
\* equals a.pow(e + (p - 1)), and a.pow(e) * a.pow(-e) is the element 1.
C9_NegativeExponent ==
    (IsPow /\ Prime(f[1].order) /\ f[1].number # 0
        /\ -(f[1].order - 1) <= last.x /\ last.x < 0) =>
        LET p == f[1].order
            shifted == pow(f[1], last.x + (p - 1))
            positive == pow(f[1], -last.x)
        IN  /\ Returned
            /\ shifted = last.out
            /\ positive.tag = "Ok"
            /\ mul(last.out.fe, positive.fe) = Ok(FE(1, p), 0)

\* C10: for every element and every exponent e, pow runs exactly
\* max(0, e') loop iterations, e' = e if e >= 0 and e + (order - 1)
\* otherwise, and then returns; when e < -(order - 1) it runs none and the
\* result is the element 1 mod order.
C10_PowTerminates ==
    IsPow =>
        LET e == last.x
            order == f[1].order
            e1 == IF e >= 0 THEN e ELSE e + (order - 1)
        IN  /\ Returned
            /\ last.out.iters = Max(0, e1)
            /\ e < -(order - 1) =>
                   last.out.fe = FE(Residue(1, order), order)

----------------------------------------------------------------------------
TypeOK ==
    /\ overflow_checks \in BOOLEAN
    /\ Len(f) <= 2
    /\ \A i \in 1..Len(f) : InT(f[i].number) /\ InT(f[i].order)
    /\ last.out.tag = "Ok" => InT(last.out.fe.number)

====
